---- MODULE Spec2Model ----
(***************************************************************************)
(* iconsur: the `set` command (src/index.js 67-218) and the jp2 format     *)
(* plug-in (src/index.js 22-37).                                           *)
(*                                                                         *)
(* Images are followed pointwise.  A decoded picture is a record of its    *)
(* dimensions and its palette (the set of packed RGBA values that occur in *)
(* it); the assembled canvas is followed at one probe coordinate, chosen   *)
(* among the coordinates on both sides of every boundary of the layout.    *)
(* Lengths that the code computes in floating point are kept exact, in     *)
(* tenths of a pixel.                                                      *)
(***************************************************************************)
EXTENDS Integers, Sequences, FiniteSets, TLC

\* ---------------------------------------------------------------- bounds
MaxTargets == 2      \* directories given to one `set` invocation
MaxEntries == 2      \* entries of a parsed icns container
MaxLen == 2          \* payload byte lengths 1..MaxLen
MaxPixels == 3       \* pixels (width * height) of a planar jp2 buffer

\* ------------------------------------------------- constants of the code
imageSize == 1024
iconPadding == 100
iconSize == imageSize - 2 * iconPadding

None == "none"
NoPixel == <<>>
NoData == 0 - 1

Pow2(n) == 2 ^ n

\* A packed pixel 0xRRGGBBAA is kept as its four bytes, as the bitmap holds
\* it and as readUInt32BE / writeUInt32BE see it.
RGBA(r, g, b, a) == <<r, g, b, a>>
White == RGBA(255, 255, 255, 255)
Red == RGBA(255, 0, 0, 255)
Blue == RGBA(0, 0, 255, 255)
Clear == RGBA(0, 0, 0, 0)
HalfBlue == RGBA(0, 0, 255, 128)
Teal == RGBA(0, 128, 128, 255)

Alpha(c) == c[4]

\* ============================================================ jp2Format
\* Math.round(i / 4): the nearest integer, a half rounding up.
MathRound4(i) == (2 * i + 4) \div 8

\* data[k] || 0 : a read past the end of the flat buffer is undefined -> 0
\* (k is an index of JavaScript, from 0).
ReadOr0(data, k) == IF k < Len(data) THEN data[k + 1] ELSE 0

\* The index of the flat planar buffer that output index i is read from.
PlanarIndex(len, i) == (len \div 4) * (i % 4) + MathRound4(i)

\* rgbaBuffer, as a sequence (JavaScript index i is element i + 1).
DecodePlanar(data) ==
    [j \in 1..Len(data) |-> ReadOr0(data, PlanarIndex(Len(data), j - 1))]

jp2Decode(planar) ==
    [width |-> planar.width, height |-> planar.height,
     data |-> DecodePlanar(planar.data)]

\* ======================================================= icns selection
ImageTags == {"ic08", "ic09", "ic10"}
OtherTags == {"TOC "}
Tags == ImageTags \cup OtherTags

isImageType(tag) == tag \in ImageTags

FilterImages(entries) == SelectSeq(entries, LAMBDA e : isImageType(e.tag))

\* Array.prototype.sort with (a, b) => b.length - a.length: a stable sort,
\* longest first.  Insert(e, s) puts e behind every element that is at least
\* as long, so elements of equal length keep their order.
RECURSIVE Insert(_, _)
Insert(e, s) ==
    IF s = <<>> THEN <<e>>
    ELSE IF Head(s).length - e.length < 0 THEN <<e>> \o s
    ELSE <<Head(s)>> \o Insert(e, Tail(s))

\* The comparator turned round, (a, b) => a.length - b.length.
RECURSIVE SortByLengthAsc(_)
SortByLengthAsc(s) ==
    IF Len(s) <= 1 THEN s
    ELSE LET rest == SortByLengthAsc(SubSeq(s, 1, Len(s) - 1))
             e == s[Len(s)]
             before == SelectSeq(rest, LAMBDA r : r.length <= e.length)
             after == SelectSeq(rest, LAMBDA r : r.length > e.length)
         IN  before \o <<e>> \o after

RECURSIVE SortByLengthDesc(_)
SortByLengthDesc(s) ==
    IF s = <<>> THEN <<>>
    ELSE Insert(s[Len(s)], SortByLengthDesc(SubSeq(s, 1, Len(s) - 1)))

\* A buffer is named by where its bytes come from: an entry of the container
\* (its tag), the whole source file as fs.readFileSync returned it (its
\* length is not followed), or nothing (undefined).
Undefined == [tag |-> "undefined", length |-> 0]
FileBuffer == [tag |-> "file", length |-> 0]

\* subIconBuffer: element [0] of the sorted image entries, or undefined.
SubIconBuffer(entries) ==
    LET sorted == SortByLengthDesc(FilterImages(entries))
    IN  IF sorted = <<>> THEN Undefined ELSE sorted[1]

\* The selection without its fall-back to the file's own bytes.
SelectIconBufferNoFallback(buf, parsed) ==
    IF ~parsed.ok THEN Undefined ELSE SubIconBuffer(parsed.entries)

\* Lines 160-169.  parsed.ok is FALSE when icns.parse throws; parsed.entries
\* are the entries of the container in the order Object.entries yields them.
SelectIconBuffer(buf, parsed) ==
    IF ~parsed.ok THEN buf
    ELSE IF SubIconBuffer(parsed.entries) # Undefined
         THEN SubIconBuffer(parsed.entries)
    ELSE buf

\* ================================================== Jimp, as the code uses it
\* Lengths of pictures are in tenths of a pixel, so that iconSize * 0.9 and
\* its half are exact.
Tenths == 2 * 5
Px(n) == n * Tenths

\* image.hasAlpha(): some pixel is not fully opaque.
hasAlpha(img) == \E c \in img.palette : Alpha(c) # 255

\* contain({ w, h }): a w x h picture holding the source scaled to fit; the
\* part the scaled source leaves uncovered is transparent.
contain(img, w, h) ==
    [w |-> w, h |-> h,
     palette |-> IF img.w * h = img.h * w THEN img.palette
                 ELSE img.palette \cup {Clear}]

\* cover({ w, h }): a w x h picture filled by the source, the overflow cropped.
cover(img, w, h) == [w |-> w, h |-> h, palette |-> img.palette]

\* resize({ w, h })
resize(img, w, h) == [w |-> w, h |-> h, palette |-> img.palette]

\* new Jimp({ width, height, color }); the colour defaults to transparent.
NewJimp(w, h, color) == [w |-> w, h |-> h, palette |-> {color}]

\* One channel of source-over blending onto an opaque pixel.
Mix(d, s, a) == (s * a + d * (255 - a)) \div 255
BlendOver(dst, src) ==
    IF Alpha(src) = 255 THEN src
    ELSE IF Alpha(src) = 0 \/ dst = NoPixel THEN dst
    ELSE IF Alpha(dst) = 0 THEN src
    ELSE RGBA(Mix(dst[1], src[1], Alpha(src)),
              Mix(dst[2], src[2], Alpha(src)),
              Mix(dst[3], src[3], Alpha(src)),
              255)

\* base.composite(overlay, x, y): the overlay's pixels blended over the base's;
\* where the overlay does not reach, the base shows.
Covers(base, overlay, x, y) ==
    /\ x <= 0 /\ x + overlay.w >= base.w
    /\ y <= 0 /\ y + overlay.h >= base.h
composite(base, overlay, x, y) ==
    [w |-> base.w, h |-> base.h,
     palette |-> {BlendOver(d, s) : d \in base.palette, s \in overlay.palette}
                 \cup (IF Covers(base, overlay, x, y) THEN {} ELSE base.palette)]

\* (a & b) >>> 0 of JavaScript: & takes its operands as two's complement
\* 32-bit integers and gives a signed one, >>> 0 reads that as unsigned.
RECURSIVE AndBits(_, _, _)
AndBits(a, b, n) ==
    IF n = 0 THEN 0
    ELSE (a % 2) * (b % 2) + 2 * AndBits(a \div 2, b \div 2, n - 1)
\* The signed 32-bit integer with the bits of the pixel u.
ToInt32(u) ==
    (IF u[1] >= 128 THEN u[1] - 256 ELSE u[1]) * Pow2(24)
        + u[2] * Pow2(16) + u[3] * Pow2(8) + u[4]
JsAnd(a, b) == ToInt32([k \in 1..4 |-> AndBits(a[k], b[k], 8)])
\* The pixel with the bits of the signed 32-bit integer i.
ToUint32(i) ==
    <<(i \div Pow2(24)) % 256, (i \div Pow2(16)) % 256,
      (i \div Pow2(8)) % 256, i % 256>>

\* The mask combined with | instead of &.
MaskPixelOr(m, c) == [k \in 1..4 |-> m[k] + c[k] - AndBits(m[k], c[k], 8)]

\* Line 198: the value given to image.setPixelColor.
MaskPixel(m, c) == ToUint32(JsAnd(m, c))

\* ============================================================= options
ScaleStrings == {"0.8"}
\* parseFloat, in tenths.
parseFloat(s) ==
    CASE s = "0.8" -> 8
      [] s = "0.9" -> 9

ColorStrings == {"336699"}
cssColorToHex(s) ==
    CASE s = "#ffffff" -> White
      [] s = "336699" -> RGBA(51, 102, 153, 255)

\* program.color || '#ffffff'
BackgroundColor(prog) ==
    cssColorToHex(IF prog.color = None THEN "#ffffff" ELSE prog.color)

\* parseFloat(program.scale || '0.9')
ScaleOption(prog) ==
    parseFloat(IF prog.scale = None THEN "0.9" ELSE prog.scale)

\* String(program.output).replace(/(\..*)?$/, '.png'): from the first dot
\* on, or at the end when there is none.
RECURSIVE FirstDot(_, _)
FirstDot(p, i) ==
    IF i > Len(p) THEN i
    ELSE IF p[i] = "." THEN i
    ELSE FirstDot(p, i + 1)
ReplaceExt(p) == SubSeq(p, 1, FirstDot(p, 1) - 1) \o <<".", "p", "n", "g">>

OutputPaths == {<<"i">>, <<"o", ".", "d", "/", "i">>}
NoPath == <<>>

\* --input not forcing local mode.
KeepLocal(prog) == prog

\* Lines 88-90: --input forces local mode.
ForceLocal(prog) ==
    IF prog.input # None THEN [prog EXCEPT !.local = TRUE] ELSE prog

\* Line 132
DoSearch(prog) == ~prog.local

\* Line 138: data && data.results && data.results.length
UseStore(d) == d # NoData /\ d > 0

\* The whole of the free space put in front of the icon.
ScalePositionWhole(s) == iconSize * (Tenths - s)

\* Line 189
ScalePosition(s) == (iconSize * (Tenths - s)) \div 2

\* The icon pasted at the canvas's corner, the padding forgotten.
InIconAtCorner(x, y) == 0 <= x /\ x < iconSize /\ 0 <= y /\ y < iconSize

\* Is (x, y) of the canvas inside the square the icon is pasted into?
InIcon(x, y) ==
    /\ iconPadding <= x /\ x < iconPadding + iconSize
    /\ iconPadding <= y /\ y < iconPadding + iconSize

\* The canvas made with the icon's size instead of the image's.
CanvasOfIconSize(prog) ==
    NewJimp(Px(iconSize), Px(iconSize), BackgroundColor(prog))

\* Line 194: the background canvas.
Canvas(prog) == NewJimp(Px(imageSize), Px(imageSize), BackgroundColor(prog))

\* The values the pixel (x, y) of base.composite(overlay, iconPadding,
\* iconPadding) can have, the base being of one colour.
CompositeAt(base, overlay, x, y) ==
    IF InIcon(x, y)
    THEN {BlendOver(d, s) : d \in base.palette, s \in overlay.palette}
    ELSE base.palette

\* image.scan(0, 0, imageSize, imageSize, ...)
InScan(x, y) == 0 <= x /\ x < imageSize /\ 0 <= y /\ y < imageSize

\* ================================================================ state
VARIABLES
    argv,                   \* the options as given on the command line
    program,                \* the options object, which the handler mutates
    nDirs,                  \* number of directories [dir, ...otherDirs]
    idx,                    \* position of the loop over them, from 1
    pc,                     \* the handler's position
    srcIconFile,
    mask,
    data,                   \* number of results of the search, NoData for null
    parsed,                 \* what icns.parse returned
    iconBuffer,
    decoded,                \* originalIcon as Jimp.read returned it
    originalIcon,
    originalIconScaleSize,  \* in tenths
    scalePosition,          \* in tenths of a pixel
    resultIcon,
    image,                  \* the canvas, followed at the pixel (x, y):
                            \* px its value, before its value as assembled
    maskPx,                 \* what mask.getPixelColor(x, y) returned
    outcome,                \* per directory: what became of it
    written,                \* the images written by image.write
    searched,               \* the search request was sent for this directory
    fileRead,               \* the file fs.readFileSync read for this directory
    planar,                 \* jp2: what the openjpeg decoder returned
    rgba                    \* jp2: what jp2Format.decode returned

vars == <<argv, program, nDirs, idx, pc, srcIconFile, mask, data, parsed,
          iconBuffer, decoded, originalIcon, originalIconScaleSize,
          scalePosition, resultIcon, image, maskPx, outcome, written,
          searched, fileRead, planar, rgba>>

locals == <<srcIconFile, mask, data, parsed, iconBuffer, decoded,
            originalIcon, originalIconScaleSize, scalePosition, resultIcon,
            image, maskPx, searched, fileRead>>

jp2vars == <<planar, rgba>>

NoImage == [w |-> 0, h |-> 0, palette |-> {}]
NoCanvas == [w |-> 0, h |-> 0, x |-> 0, y |-> 0, before |-> NoPixel,
             px |-> NoPixel, masked |-> FALSE]
NoParse == [ok |-> FALSE, entries |-> <<>>]
NoPlanar == [width |-> 0, height |-> 0, data |-> <<>>]

\* ---------------------------------------------------------- the inputs
Options ==
    [local : BOOLEAN, input : {None, "in.png"}, output : {NoPath} \cup OutputPaths,
     scale : {None} \cup ScaleStrings, color : {None} \cup ColorStrings]

Entries == [tag : Tags, length : 1..MaxLen]
DistinctTags(s) == \A i, j \in 1..Len(s) : s[i].tag = s[j].tag => i = j
Containers ==
    UNION {{s \in [1..n -> Entries] : DistinctTags(s)} : n \in 0..MaxEntries}
ParseResults ==
    {NoParse} \cup {[ok |-> TRUE, entries |-> c] : c \in Containers}

SourceSizes == {<<512, 512>>, <<200, 100>>}
SourcePalettes == {{Red}, {Red, Blue}, {Red, Clear}, {HalfBlue}}
DecodedImages ==
    {[w |-> Px(d[1]), h |-> Px(d[2]), palette |-> p] :
        d \in SourceSizes, p \in SourcePalettes}
StoreImages == {[w |-> Px(512), h |-> Px(512), palette |-> {Teal}]}

\* mask.png: white inside the shape, transparent outside, graded on its edge.
MaskValues == {White, Clear, RGBA(255, 255, 255, 128)}
MaskFileSizes == {imageSize, 2 * imageSize}

SampleCoords ==
    {0, iconPadding - 1, iconPadding, iconPadding + iconSize - 1,
     iconPadding + iconSize, imageSize - 1}

Samples == {0, 255}
PlanarDims ==
    {d \in (1..MaxPixels) \X (1..MaxPixels) : d[1] * d[2] <= MaxPixels}
PlanarBuffers ==
    UNION {[width : {d[1]}, height : {d[2]},
            data : [1..4 * d[1] * d[2] -> Samples]] : d \in PlanarDims}

\* ----------------------------------------------------------------- Init
LocalsInit ==
    /\ srcIconFile = None
    /\ mask = NoImage
    /\ data = NoData
    /\ parsed = NoParse
    /\ iconBuffer = Undefined
    /\ decoded = NoImage
    /\ originalIcon = NoImage
    /\ originalIconScaleSize = 0
    /\ scalePosition = 0
    /\ resultIcon = NoImage
    /\ image = NoCanvas
    /\ maskPx = NoPixel
    /\ searched = FALSE
    /\ fileRead = None

Init ==
    /\ argv \in Options
    /\ program = argv
    /\ nDirs \in 1..MaxTargets
    /\ idx = 0
    /\ pc = "loop"
    /\ LocalsInit
    /\ outcome = [i \in 1..nDirs |-> "pending"]
    /\ written = {}
    /\ planar = NoPlanar
    /\ rgba = NoPlanar

\* The loop body's variables, as they are when an iteration begins.
ResetLocals ==
    /\ srcIconFile' = None
    /\ mask' = NoImage
    /\ data' = NoData
    /\ parsed' = NoParse
    /\ iconBuffer' = Undefined
    /\ decoded' = NoImage
    /\ originalIcon' = NoImage
    /\ originalIconScaleSize' = 0
    /\ scalePosition' = 0
    /\ resultIcon' = NoImage
    /\ image' = NoCanvas
    /\ maskPx' = NoPixel
    /\ searched' = FALSE
    /\ fileRead' = None

\* process.exit(1), from the handler or from the uncaughtException hook.
Exit(reason) ==
    /\ pc' = "exit"
    /\ outcome' = [outcome EXCEPT ![idx] = reason]

\* ============================================== the `set` handler, 67-218
\* Line 72: the next directory of the loop.
NextTarget ==
    /\ pc = "loop" /\ idx < nDirs
    /\ idx' = idx + 1
    /\ pc' = "stat"
    /\ UNCHANGED <<argv, program, nDirs, locals, outcome, written, jp2vars>>

\* The loop has run through: the handler returns.
Finish ==
    /\ pc = "loop" /\ idx = nDirs
    /\ pc' = "done"
    /\ UNCHANGED <<argv, program, nDirs, idx, locals, outcome, written, jp2vars>>

\* Lines 75-84.  fs.statSync throws when nothing is at the path, which the
\* uncaughtException hook turns into exit(1).
StatDir ==
    /\ pc = "stat"
    /\ \E kind \in {"missing", "file", "dir", "app"} :
          CASE kind = "app" -> pc' = "options" /\ UNCHANGED outcome
            [] kind = "dir" -> Exit("not an app")
            [] OTHER -> Exit("no directory")
    /\ UNCHANGED <<argv, program, nDirs, idx, locals, written, jp2vars>>

\* Lines 86-120.  The plist gives the icon file, or, when it cannot be read,
\* AppIcon.icns is taken.
ResolveOptions ==
    /\ pc = "options"
    /\ program' = ForceLocal(program)
    /\ \E plistOk \in BOOLEAN :
          srcIconFile' = IF program.input # None THEN program.input
                         ELSE IF plistOk THEN "CFBundleIconFile.icns"
                         ELSE "AppIcon.icns"
    /\ pc' = "mask"
    /\ UNCHANGED <<argv, nDirs, idx, mask, data, parsed, iconBuffer, decoded,
                   originalIcon, originalIconScaleSize, scalePosition,
                   resultIcon, image, maskPx, searched, fileRead, outcome,
                   written, jp2vars>>

\* Line 126
ReadMask ==
    /\ pc = "mask"
    /\ \E n \in MaskFileSizes :
          mask' = resize([w |-> Px(n), h |-> Px(n), palette |-> MaskValues],
                         Px(imageSize), Px(imageSize))
    /\ pc' = "search"
    /\ UNCHANGED <<argv, program, nDirs, idx, srcIconFile, data, parsed,
                   iconBuffer, decoded, originalIcon, originalIconScaleSize,
                   scalePosition, resultIcon, image, maskPx, searched,
                   fileRead, outcome, written, jp2vars>>

\* Lines 132-136: the request is sent; it fails (a rejection, exit(1)) or
\* answers with n results.
Search ==
    /\ pc = "search" /\ DoSearch(program)
    /\ searched' = TRUE
    /\ \/ \E n \in 0..1 : data' = n /\ pc' = "branch" /\ UNCHANGED outcome
       \/ data' = data /\ Exit("search failed")
    /\ UNCHANGED <<argv, program, nDirs, idx, srcIconFile, mask, parsed,
                   iconBuffer, decoded, originalIcon, originalIconScaleSize,
                   scalePosition, resultIcon, image, maskPx, fileRead,
                   written, jp2vars>>

\* Line 132, program.local set: data stays null.
SkipSearch ==
    /\ pc = "search" /\ ~DoSearch(program)
    /\ pc' = "branch"
    /\ UNCHANGED <<argv, program, nDirs, idx, locals, outcome, written, jp2vars>>

\* Lines 138-146: the store's artwork, fetched, decoded and resized.
FetchStoreIcon ==
    /\ pc = "branch" /\ UseStore(data)
    /\ \/ \E img \in StoreImages :
             /\ resultIcon' = resize(img, Px(iconSize), Px(iconSize))
             /\ pc' = "assemble"
             /\ UNCHANGED outcome
       \/ resultIcon' = resultIcon /\ Exit("store icon failed")
    /\ UNCHANGED <<argv, program, nDirs, idx, srcIconFile, mask, data, parsed,
                   iconBuffer, decoded, originalIcon, originalIconScaleSize,
                   scalePosition, image, maskPx, searched, fileRead, written,
                   jp2vars>>

\* Lines 147-156
CheckSource ==
    /\ pc = "branch" /\ ~UseStore(data)
    /\ \E exists \in BOOLEAN :
          IF exists THEN pc' = "read" /\ UNCHANGED outcome
          ELSE Exit("icon missing")
    /\ UNCHANGED <<argv, program, nDirs, idx, locals, written, jp2vars>>

\* Line 158
ReadSource ==
    /\ pc = "read"
    /\ iconBuffer' = FileBuffer
    /\ fileRead' = srcIconFile
    /\ pc' = "extract"
    /\ UNCHANGED <<argv, program, nDirs, idx, srcIconFile, mask, data, parsed,
                   decoded, originalIcon, originalIconScaleSize, scalePosition,
                   resultIcon, image, maskPx, searched, outcome, written,
                   jp2vars>>

\* Lines 160-169
ExtractIcns ==
    /\ pc = "extract"
    /\ \E p \in ParseResults :
          /\ parsed' = p
          /\ iconBuffer' = SelectIconBuffer(iconBuffer, p)
    /\ pc' = "decode"
    /\ UNCHANGED <<argv, program, nDirs, idx, srcIconFile, mask, data, decoded,
                   originalIcon, originalIconScaleSize, scalePosition,
                   resultIcon, image, maskPx, searched, fileRead, outcome,
                   written, jp2vars>>

\* Lines 171-178.  The container and the buffer are not read after this.
DecodeIcon ==
    /\ pc = "decode"
    /\ \/ \E img \in DecodedImages :
             /\ decoded' = img
             /\ originalIcon' = img
             /\ parsed' = NoParse
             /\ iconBuffer' = Undefined
             /\ pc' = "scale"
             /\ UNCHANGED outcome
       \/ /\ UNCHANGED <<decoded, originalIcon, parsed, iconBuffer>>
          /\ Exit("decode failed")
    /\ UNCHANGED <<argv, program, nDirs, idx, srcIconFile, mask, data,
                   originalIconScaleSize, scalePosition, resultIcon, image,
                   maskPx, searched, fileRead, written, jp2vars>>

\* Lines 180-190
ScaleIcon ==
    /\ pc = "scale"
    /\ IF hasAlpha(originalIcon)
       THEN /\ originalIconScaleSize' = ScaleOption(program)
            /\ originalIcon' = contain(originalIcon,
                                       iconSize * originalIconScaleSize',
                                       iconSize * originalIconScaleSize')
       ELSE /\ originalIconScaleSize' = Tenths
            /\ originalIcon' = cover(originalIcon, Px(iconSize), Px(iconSize))
    /\ scalePosition' = ScalePosition(originalIconScaleSize')
    /\ resultIcon' = composite(NewJimp(Px(iconSize), Px(iconSize), Clear),
                               originalIcon', scalePosition', scalePosition')
    /\ pc' = "assemble"
    /\ UNCHANGED <<argv, program, nDirs, idx, srcIconFile, mask, data, parsed,
                   iconBuffer, decoded, image, maskPx, searched, fileRead,
                   outcome, written, jp2vars>>

\* Line 194
Assemble ==
    /\ pc = "assemble"
    /\ \E x \in SampleCoords, y \in SampleCoords :
       \E c \in CompositeAt(Canvas(program), resultIcon, x, y) :
          image' = [w |-> Canvas(program).w, h |-> Canvas(program).h,
                    x |-> x, y |-> y, before |-> c, px |-> c,
                    masked |-> FALSE]
    /\ pc' = "maskscan"
    /\ UNCHANGED <<argv, program, nDirs, idx, srcIconFile, mask, data, parsed,
                   iconBuffer, decoded, originalIcon, originalIconScaleSize,
                   scalePosition, resultIcon, maskPx, searched, fileRead,
                   outcome, written, jp2vars>>

\* Lines 197-199
ApplyMask ==
    /\ pc = "maskscan"
    /\ \E m \in mask.palette :
          /\ maskPx' = m
          /\ image' = IF InScan(image.x, image.y)
                      THEN [image EXCEPT !.px = MaskPixel(m, image.px),
                                         !.masked = TRUE]
                      ELSE image
    /\ pc' = "write"
    /\ UNCHANGED <<argv, program, nDirs, idx, srcIconFile, mask, data, parsed,
                   iconBuffer, decoded, originalIcon, originalIconScaleSize,
                   scalePosition, resultIcon, searched, fileRead, outcome,
                   written, jp2vars>>

WrittenImage(dest) ==
    [target |-> idx, dest |-> dest, w |-> image.w, h |-> image.h,
     masked |-> image.masked]

\* Lines 201-204
WriteOutput ==
    /\ pc = "write" /\ program.output # NoPath
    /\ program' = [program EXCEPT !.output = ReplaceExt(program.output)]
    /\ written' = written \cup {WrittenImage(program'.output)}
    /\ outcome' = [outcome EXCEPT ![idx] = "saved"]
    /\ pc' = "loop"
    /\ ResetLocals
    /\ UNCHANGED <<argv, nDirs, idx, jp2vars>>

\* Lines 205-207
WriteTmp ==
    /\ pc = "write" /\ program.output = NoPath
    /\ written' = written \cup {WrittenImage(<<"tmp">>)}
    /\ pc' = "fileicon"
    /\ UNCHANGED <<argv, program, nDirs, idx, locals, outcome, jp2vars>>

\* Lines 209-215
RunFileicon ==
    /\ pc = "fileicon"
    /\ \E status \in 0..1 :
          IF status # 0
          THEN Exit("fileicon failed") /\ UNCHANGED locals
          ELSE /\ outcome' = [outcome EXCEPT ![idx] = "applied"]
               /\ pc' = "loop"
               /\ ResetLocals
    /\ UNCHANGED <<argv, program, nDirs, idx, written, jp2vars>>

Next ==
    \/ NextTarget \/ Finish \/ StatDir \/ ResolveOptions \/ ReadMask
    \/ Search \/ SkipSearch \/ FetchStoreIcon \/ CheckSource \/ ReadSource
    \/ ExtractIcns \/ DecodeIcon \/ ScaleIcon \/ Assemble \/ ApplyMask
    \/ WriteOutput \/ WriteTmp \/ RunFileicon

Spec == Init /\ [][Next]_vars

\* ======================================== jp2Format.decode, on its own
InitJp2 ==
    /\ argv \in {o \in Options : o.output = NoPath /\ o.scale = None
                                 /\ o.color = None /\ o.input = None /\ o.local}
    /\ program = argv
    /\ nDirs = 1
    /\ idx = 0
    /\ pc = "jp2"
    /\ LocalsInit
    /\ outcome = [i \in 1..nDirs |-> "pending"]
    /\ written = {}
    /\ planar \in PlanarBuffers
    /\ rgba = NoPlanar

\* Lines 25-35: Jimp hands the bytes to the plug-in, openjpeg returns the
\* planar samples, the plug-in returns the interleaved ones.
Jp2Decode ==
    /\ pc = "jp2"
    /\ rgba' = jp2Decode(planar)
    /\ pc' = "jp2 done"
    /\ UNCHANGED <<argv, program, nDirs, idx, locals, outcome, written, planar>>

NextJp2 == Jp2Decode

SpecJp2 == InitJp2 /\ [][NextJp2]_vars

\* =============================================================== claims
Pixels(buf) == buf.width * buf.height

\* C1: every output byte 4*p + c of jp2Format.decode is plane c's sample at
\* position p, input[P*c + p], for every pixel p and channel c.
C1_PlanarToInterleaved ==
    pc = "jp2 done" =>
        \A p \in 0..Pixels(planar) - 1, c \in 0..3 :
            rgba.data[4 * p + c + 1] = planar.data[Pixels(planar) * c + p + 1]

\* C2: output byte i of jp2Format.decode is planes[i % 4][round(i / 4)] when
\* that offset lies in the plane, and 0 when the offset is past the plane's
\* end, so that no sample of another plane is ever returned.
C2_RoundedOffsetOrZero ==
    pc = "jp2 done" =>
        \A i \in 0..4 * Pixels(planar) - 1 :
            LET plane == i % 4
                offset == (2 * i + 4) \div 8
            IN  rgba.data[i + 1] =
                    IF offset < Pixels(planar)
                    THEN planar.data[Pixels(planar) * plane + offset + 1]
                    ELSE 0

\* The positions of the image-type entries of a container.
ImagePositions(entries) ==
    {k \in 1..Len(entries) : entries[k].tag \in ImageTags}
Reversed(entries) ==
    [k \in 1..Len(entries) |-> entries[Len(entries) + 1 - k]]

\* C3: of a parsed container with an image-type entry, the bytes chosen are
\* those of an image-type entry of greatest length, the first such entry in
\* the container's order; with the entries in the opposite order an entry of
\* the same length is chosen; an entry of another type is never chosen.
C3_LargestImageEntry ==
    (pc = "decode" /\ parsed.ok /\ ImagePositions(parsed.entries) # {}) =>
        /\ \E k \in ImagePositions(parsed.entries) :
              /\ iconBuffer = parsed.entries[k]
              /\ \A j \in ImagePositions(parsed.entries) :
                    /\ parsed.entries[j].length <= iconBuffer.length
                    /\ j < k => parsed.entries[j].length < iconBuffer.length
        /\ iconBuffer.tag \in ImageTags
        /\ SelectIconBuffer(FileBuffer,
                            [ok |-> TRUE, entries |-> Reversed(parsed.entries)]
                           ).length = iconBuffer.length

\* C3 witness: two image entries of one length; the first is the one chosen.
C3_Witness ==
    /\ pc = "decode" /\ parsed.ok /\ Len(parsed.entries) = 2
    /\ ImagePositions(parsed.entries) = {1, 2}
    /\ parsed.entries[1].length = parsed.entries[2].length
    /\ iconBuffer = parsed.entries[1]

\* The local path has produced the canvas from a source of one opaque colour,
\* under the default configuration.
OpaqueSolidCase ==
    /\ pc \in {"write", "fileicon"}
    /\ fileRead # None
    /\ argv.scale = None /\ argv.color = None
    /\ Cardinality(decoded.palette) = 1
    /\ \A c \in decoded.palette : c[4] = 255
SourceColour == CHOOSE c \in decoded.palette : TRUE
InInnerSquare ==
    /\ 100 <= image.x /\ image.x < 924
    /\ 100 <= image.y /\ image.y < 924

\* C4 as stated: for an opaque source of one colour and the default
\* configuration the output is 1024 x 1024, every pixel outside the mask
\* shape is the background colour, every pixel inside the shape and inside
\* [100, 924) x [100, 924) is the source colour, and the source fills the
\* 824 x 824 square at offset 0.
C4_OutsideIsBackground ==
    OpaqueSolidCase =>
        /\ image.w = 10240 /\ image.h = 10240
        /\ originalIcon.w = 8240 /\ originalIcon.h = 8240
        /\ scalePosition = 0
        /\ maskPx = Clear => image.px = White
        /\ (maskPx = White /\ InInnerSquare) => image.px = SourceColour

\* C4 as amended: as above, except that a pixel outside the mask shape (mask
\* pixel of all-0 bits) is 0, transparent black, and it is the pixels inside
\* the shape and outside the inner square that are the background colour.
C4_OutsideIsTransparent ==
    OpaqueSolidCase =>
        /\ image.w = 10240 /\ image.h = 10240
        /\ originalIcon.w = 8240 /\ originalIcon.h = 8240
        /\ scalePosition = 0
        /\ maskPx = Clear => image.px = Clear
        /\ (maskPx = White /\ ~InInnerSquare) => image.px = White
        /\ (maskPx = White /\ InInnerSquare) => image.px = SourceColour

\* C4 witness: a red source; the pixel (99, 100), just outside the inner
\* square and inside the mask shape, is white.
C4_Witness ==
    /\ OpaqueSolidCase /\ decoded.palette = {Red}
    /\ image.x = 99 /\ image.y = 100
    /\ maskPx = White /\ image.px = White

\* The local path has placed the source.
Placed ==
    /\ pc \in {"assemble", "maskscan", "write", "fileicon"}
    /\ fileRead # None

Bits(n) == {k \in 0..7 : (n \div Pow2(k)) % 2 = 1}

\* C6: after the masking the canvas pixel is the unsigned 32-bit AND of the
\* mask pixel and of the pixel as assembled, the mask being of the canvas's
\* size; and with a mask pixel of all-1 or all-0 bits, masking the result
\* again leaves it as it is.
C6_MaskIsAnd ==
    pc \in {"write", "fileicon"} =>
        /\ image.masked
        /\ mask.w = image.w /\ mask.h = image.h
        /\ \A k \in 1..4 :
              /\ image.px[k] \in 0..255
              /\ Bits(image.px[k]) = Bits(maskPx[k]) \cap Bits(image.before[k])
        /\ maskPx \in {White, Clear} => MaskPixel(maskPx, image.px) = image.px

\* C6 witness: a coloured pixel under a mask pixel of all-0 bits has become 0.
C6_Witness ==
    /\ pc = "write" /\ maskPx = Clear
    /\ image.before = Red /\ image.px = Clear

\* C7: when the container cannot be parsed or holds no image-type entry, the
\* handler goes on to decode the bytes of the source file as they were read;
\* after the file was read and before the canvas is made, the handler exits
\* only because those bytes, or the entry's, cannot be decoded.
C7_FallbackToFile ==
    /\ (pc = "decode" /\ (~parsed.ok \/ ImagePositions(parsed.entries) = {}))
          => iconBuffer = FileBuffer
    /\ (pc = "exit" /\ fileRead # None /\ image = NoCanvas)
          => outcome[idx] = "decode failed"
    /\ (pc = "exit" /\ outcome[idx] = "icon missing") => fileRead = None

\* C7 witness: a container that holds entries, none of an image type; the
\* file's bytes are about to be decoded.
C7_Witness ==
    /\ pc = "decode" /\ parsed.ok /\ Len(parsed.entries) > 0
    /\ ImagePositions(parsed.entries) = {}
    /\ iconBuffer = FileBuffer

GenerationFailures ==
    {"no directory", "not an app", "search failed", "store icon failed",
     "icon missing", "decode failed"}

\* C8: an image is written for a directory only when its canvas is assembled
\* and masked, and is 1024 x 1024; a directory whose generation failed has no
\* image written, and an icon is applied only from a written image.
C8_NoPartialResult ==
    /\ \A r \in written :
          /\ r.w = 10240 /\ r.h = 10240 /\ r.masked
          /\ r.target = idx => pc \in {"fileicon", "loop", "exit", "done"}
    /\ \A i \in 1..nDirs :
          /\ outcome[i] \in GenerationFailures
                => ~\E r \in written : r.target = i
          /\ outcome[i] \in {"applied", "saved", "fileicon failed"}
                => \E r \in written : r.target = i
    /\ pc \in {"stat", "options", "mask", "search", "branch", "read",
               "extract", "decode", "scale", "assemble", "maskscan", "write"}
          => ~\E r \in written : r.target = idx

\* C8 witness: the second directory's source cannot be decoded; the first
\* one's image is written, none for the second.
C8_Witness ==
    /\ pc = "exit" /\ idx = 2 /\ outcome[2] = "decode failed"
    /\ \E r \in written : r.target = 1
    /\ ~\E r \in written : r.target = 2

\* C9: every directory of the batch is processed, whatever became of the
\* others: when the handler has ended, none is left unprocessed.
C9_EveryTargetProcessed ==
    pc \in {"done", "exit"} => \A i \in 1..nDirs : outcome[i] # "pending"

\* C10: the search is made exactly when neither --local nor --input was
\* given; the store's icon is used exactly when the search was made and gave
\* a result, and then the source file is never read; otherwise the icon is
\* made from the source file, the --input path when given, else the app's own.
C10_SourceSelection ==
    /\ pc \in {"branch", "read", "extract", "decode", "scale", "assemble",
               "maskscan", "write", "fileicon"}
          => (searched <=> (~argv.local /\ argv.input = None))
    /\ pc \in {"read", "extract", "decode", "scale"}
          => ~(searched /\ data > 0)
    /\ pc \in {"assemble", "maskscan", "write", "fileicon"} =>
          /\ (fileRead = None) <=> (searched /\ data > 0)
          /\ fileRead = None => resultIcon.palette = {Teal}
          /\ fileRead # None =>
                /\ resultIcon.palette # {Teal}
                /\ IF argv.input # None THEN fileRead = argv.input
                   ELSE fileRead \in {"CFBundleIconFile.icns", "AppIcon.icns"}

\* C10 witness: a search that gave no result, and the icon made from the
\* app's own icon file.
C10_Witness ==
    /\ pc = "assemble" /\ searched /\ data = 0
    /\ fileRead = "CFBundleIconFile.icns"
====
